---- MODULE Spec2Model ----
(***************************************************************************)
(* State-machine model of LocalImagesPlugin (src/src/main.ts): the         *)
(* download registry kept in pluginData.processedImageUrls, its lookup     *)
(* with validation against the vault, and its persistence through          *)
(* loadPluginData / savePluginData.                                        *)
(* SpecPlugin follows the plugin's life (onload, the ribbon icon, the two   *)
(* triggers, onunload); SpecPass follows one pass of the content           *)
(* processor over a document, its steps taken from the specification.      *)
(*                                                                         *)
(* JavaScript values are modelled as tagged records so that any two of     *)
(* them can be compared: undefined, an atom (a string; booleans and null   *)
(* are written "true", "false", "null"), an object (its own properties as  *)
(* a sequence of key/value pairs in insertion order), or a reference to    *)
(* an object of the heap (the objects the program can alias).              *)
(***************************************************************************)
EXTENDS Integers, Sequences, FiniteSets, TLC

VARIABLES
    heap,        \* the mutable objects: address -> own properties (pairs)
    pluginData,  \* this.pluginData: Undefined before loadPluginData, else an object
    dataJson,    \* the persisted blob behind loadData()/saveData(): Null when absent
    vault,       \* the vault's entries: path -> "none" | "file" | "folder"
    last,        \* the last operation: its name (op), its url, the value it passed or
                 \* returned (val), and what it replaced or followed (before)
    phase,       \* the plugin's life: "constructed" | "loading" | "loaded" | "unloaded"
    contentProcessor,   \* this.contentProcessor is constructed
    commandRegistered,  \* the command of addCommand is offered to the user
    ribbonIconEl,       \* this.ribbonIconEl: 0 for undefined, else the element
    ribbon,      \* the plugin's icon elements attached to the ribbon
    view,        \* the active view: "none" | "nofile" (a view with no file) | "file"
    inFlight,    \* the processActiveLeaf passes started and not yet settled
    pass,        \* the pass the content processor is running: its position (pc),
                 \* its references (refs), each one's resolution (res) and
                 \* replacement target, the document writes it made, and the
                 \* registry it started from (reg0)
    doc          \* the active document's text: its image links, each a url or a path

uiVars == <<phase, contentProcessor, commandRegistered, ribbonIconEl, ribbon, view, inFlight>>

passVars == <<pass, doc>>

vars == <<heap, pluginData, dataJson, vault, last, uiVars, passVars>>

----------------------------------------------------------------------------
(* Bounds *)

\* how many distinct descriptive signatures an ImageMeta can carry
MaxSig == 1

\* how many icon elements the ribbon can hold, and how many passes can be in
\* flight, before the model stops adding more
MaxEl == 2
MaxInFlight == 2

\* how many image links a document holds
MaxRefs == 2

URLs == {"https://a/x.png", "https://b/y.png"}
Paths == {"img/x.png", "img/y.png"}
Sigs == 1..MaxSig

----------------------------------------------------------------------------
(* JavaScript values *)

Undefined == [t |-> "undefined", a |-> "", o |-> <<>>]
Atom(s) == [t |-> "atom", a |-> s, o |-> <<>>]
Null == Atom("null")
Obj(pairs) == [t |-> "obj", a |-> "", o |-> pairs]
Ref(addr) == [t |-> "ref", a |-> addr, o |-> <<>>]
Pair(key, value) == <<[k |-> key, v |-> value]>>

\* !v : the values JavaScript treats as false
Falsy(v) == v.t = "undefined" \/ (v.t = "atom" /\ v.a \in {"null", "false", "", "0"})

\* the own property keys of a sequence of pairs
Keys(pairs) == {pairs[i].k : i \in 1..Len(pairs)}

\* pairs[key]: undefined when key is no own property
PairsGet(pairs, key) ==
    IF key \in Keys(pairs)
    THEN pairs[CHOOSE i \in 1..Len(pairs) : pairs[i].k = key].v
    ELSE Undefined

\* pairs[key] = value: an existing key keeps its place, a new key is appended
PairsPut(pairs, key, value) ==
    IF key \in Keys(pairs)
    THEN [i \in 1..Len(pairs) |->
            IF pairs[i].k = key THEN [k |-> key, v |-> value] ELSE pairs[i]]
    ELSE Append(pairs, [k |-> key, v |-> value])

\* the own enumerable properties of a value, as Object.assign reads a source:
\* none for undefined, null and the other atoms of the model
Props(v) ==
    CASE v.t = "obj" -> v.o
      [] v.t = "ref" -> heap[v.a]
      [] OTHER -> <<>>

\* v[key] for a value that is not null or undefined
Get(v, key) == PairsGet(Props(v), key)

\* v?.[key]
OptGet(v, key) == IF v = Undefined \/ v = Null THEN Undefined ELSE Get(v, key)

RECURSIVE AssignPairs(_, _)
\* Object.assign(target, source) on own properties: each source pair is set in turn
AssignPairs(target, source) ==
    IF source = <<>> THEN target
    ELSE AssignPairs(PairsPut(target, Head(source).k, Head(source).v), Tail(source))

\* Object.assign({}, a, b): a fresh object
Assign(a, b) == AssignPairs(AssignPairs(<<>>, Props(a)), Props(b))

\* the key -> value mapping of a sequence of pairs (insertion order forgotten)
Mapping(pairs) == [key \in Keys(pairs) |-> PairsGet(pairs, key)]

----------------------------------------------------------------------------
(* The data of config.ts and utils.ts that main.ts reads *)

\* an ImageMeta: the local path and one descriptive field
Meta(path, sig) ==
    Obj(Pair("filePath", Atom(path)) \o Pair("signature", Atom(ToString(sig))))

Metas == {Meta(p, s) : p \in Paths, s \in Sigs}

\* the settings a build's defaults may hold: showRibbonIcon either way, flat
\* or with a nested group of options
NamingGroup == Obj(Pair("prefix", Atom("img")) \o Pair("suffix", Atom("none")))

DefaultSettingsShapes ==
    {Pair("showRibbonIcon", Atom(b)) \o g :
        b \in {"true", "false"}, g \in {<<>>, Pair("naming", NamingGroup)}}

\* DEFAULT_PLUGIN_DATA: its two nested objects live in the heap
DEFAULT_PLUGIN_DATA ==
    Obj(Pair("settings", Ref("D.settings"))
        \o Pair("processedImageUrls", Ref("D.processedImageUrls")))

Addrs == {"D.settings", "D.processedImageUrls", "settings", "processedImageUrls"}

----------------------------------------------------------------------------
(* Host collaborators *)

\* this.app.vault.getAbstractFileByPath(path): what the vault holds at path
getAbstractFileByPath(path) ==
    IF path.t = "atom" /\ path.a \in Paths THEN vault[path.a] ELSE "none"

\* this.loadData(): the parsed data.json, null when there is none
loadData == dataJson

\* JSON.stringify, as saveData does it: references are followed (the blob is a
\* copy), properties whose value is undefined are dropped
DropUndefined(pairs) == SelectSeq(pairs, LAMBDA pr : pr.v # Undefined)

Serialize(v) ==
    LET deref(x) == IF x.t = "ref" THEN Obj(DropUndefined(heap[x.a])) ELSE x
        own == DropUndefined(Props(v))
    IN  Obj([i \in 1..Len(own) |-> [k |-> own[i].k, v |-> deref(own[i].v)]])

----------------------------------------------------------------------------
(* LocalImagesPlugin *)

Loaded == pluginData # Undefined

\* this.pluginData.processedImageUrls, the registry object
processedImageUrls == Get(pluginData, "processedImageUrls")

\* its own properties
Registry == Props(processedImageUrls)

Op(name, url, val, before) == [op |-> name, url |-> url, val |-> val, before |-> before]

\* whether the in-memory data differs from what data.json holds
Unsaved == Serialize(pluginData) # dataJson

\* a load that reads the registry under a key the blob never has
loadPluginData_RegistryNotRead(loadedData) ==
    LET top == Assign(DEFAULT_PLUGIN_DATA, loadedData) IN
    [top |-> PairsPut(PairsPut(top, "settings", Ref("settings")),
                      "processedImageUrls", Ref("processedImageUrls")),
     settings |-> Assign(Ref("D.settings"), OptGet(loadedData, "settings")),
     processedImageUrls |-> Assign(Ref("D.processedImageUrls"),
                                   OptGet(loadedData, "processedImageUrl"))]

\* a load that merges the top level only (line 68 alone)
loadPluginData_TopLevelOnly(loadedData) ==
    [top |-> Assign(DEFAULT_PLUGIN_DATA, loadedData),
     settings |-> heap["settings"],
     processedImageUrls |-> heap["processedImageUrls"]]

\* a load that leaves the defaults' own registry object in place when the blob
\* has none (the result of line 68 kept for processedImageUrls)
loadPluginData_RegistryAliased(loadedData) ==
    LET top == Assign(DEFAULT_PLUGIN_DATA, loadedData) IN
    [top |-> PairsPut(PairsPut(top, "settings", Ref("settings")),
                      "processedImageUrls",
                      IF Falsy(OptGet(loadedData, "processedImageUrls"))
                      THEN Ref("D.processedImageUrls")
                      ELSE Ref("processedImageUrls")),
     settings |-> Assign(Ref("D.settings"), OptGet(loadedData, "settings")),
     processedImageUrls |-> Assign(Ref("D.processedImageUrls"),
                                   OptGet(loadedData, "processedImageUrls"))]

\* loadPluginData, lines 68-79: the new top-level object and the two fresh
\* objects its settings and processedImageUrls properties are set to
loadPluginData(loadedData) ==
    LET top == Assign(DEFAULT_PLUGIN_DATA, loadedData) IN
    [top |-> PairsPut(PairsPut(top, "settings", Ref("settings")),
                      "processedImageUrls", Ref("processedImageUrls")),
     settings |-> Assign(Ref("D.settings"), OptGet(loadedData, "settings")),
     processedImageUrls |-> Assign(Ref("D.processedImageUrls"),
                                   OptGet(loadedData, "processedImageUrls"))]

LoadPluginData ==
    LET loaded == loadPluginData(loadData)
    IN  /\ heap' = [heap EXCEPT !["settings"] = loaded.settings,
                                !["processedImageUrls"] = loaded.processedImageUrls]
        /\ pluginData' = Obj(loaded.top)
        /\ last' = Op("load", "", Undefined,
                      CASE last.op = "save" -> Atom("saved")
                        [] last.op = "stop" -> last.val
                        [] OTHER -> Undefined)
        /\ UNCHANGED <<dataJson, vault>>

\* savePluginData: saveData(this.pluginData) overwrites the whole blob
SavePluginData ==
    /\ Loaded
    /\ dataJson' = Serialize(pluginData)
    /\ last' = Op("save", "", Undefined, Undefined)
    /\ UNCHANGED <<heap, pluginData, vault>>

\* a record that keeps an entry already present (insert-if-absent)
addProcessedUrl_KeepExisting(url, imageMeta) ==
    IF url \in Keys(Registry) THEN heap
    ELSE [heap EXCEPT ![processedImageUrls.a] = PairsPut(@, url, imageMeta)]

\* a record that replaces the registry by the one new entry
addProcessedUrl_ReplaceAll(url, imageMeta) ==
    [heap EXCEPT ![processedImageUrls.a] = Pair(url, imageMeta)]

\* a record that pushes a new pair whether or not the url is already a key
addProcessedUrl_Append(url, imageMeta) ==
    [heap EXCEPT ![processedImageUrls.a] = Append(@, [k |-> url, v |-> imageMeta])]

\* addProcessedUrl(url, imageMeta)
addProcessedUrl(url, imageMeta) ==
    [heap EXCEPT ![processedImageUrls.a] = PairsPut(@, url, imageMeta)]

\* a record that also saves, entry by entry
AddProcessedUrl_Saving(url, imageMeta) ==
    /\ Loaded
    /\ heap' = addProcessedUrl(url, imageMeta)
    /\ dataJson' = Obj([i \in 1..Len(pluginData.o) |->
                        [k |-> pluginData.o[i].k,
                         v |-> IF pluginData.o[i].v.t = "ref"
                               THEN Obj(heap'[pluginData.o[i].v.a])
                               ELSE pluginData.o[i].v]])
    /\ last' = Op("add", url, imageMeta, Get(processedImageUrls, url))
    /\ UNCHANGED <<pluginData, vault>>

AddProcessedUrl(url, imageMeta) ==
    /\ Loaded
    /\ heap' = addProcessedUrl(url, imageMeta)
    /\ last' = Op("add", url, imageMeta, Get(processedImageUrls, url))
    /\ UNCHANGED <<pluginData, dataJson, vault>>

\* a lookup that accepts whatever the vault holds at the path, a folder included
getProcessedUrlMeta_AnyEntry(url) ==
    LET imageMeta == Get(processedImageUrls, url) IN
    IF Falsy(imageMeta) THEN Null
    ELSE LET file == getAbstractFileByPath(Get(imageMeta, "filePath")) IN
         IF file = "none" THEN Null ELSE imageMeta

\* a lookup that trusts the result of the previous lookup of the same url
getProcessedUrlMeta_Cached(url) ==
    IF last.op \in {"get", "vault"} /\ last.url = url /\ last.val # Null
    THEN last.val
    ELSE LET imageMeta == Get(processedImageUrls, url) IN
         IF Falsy(imageMeta) THEN Null
         ELSE LET file == getAbstractFileByPath(Get(imageMeta, "filePath")) IN
              IF file # "file" THEN Null ELSE imageMeta

\* a lookup with the file test inverted
getProcessedUrlMeta_Inverted(url) ==
    LET imageMeta == Get(processedImageUrls, url) IN
    IF Falsy(imageMeta) THEN Null
    ELSE LET file == getAbstractFileByPath(Get(imageMeta, "filePath")) IN
         IF file = "file" THEN Null ELSE imageMeta

\* getProcessedUrlMeta(url): the meta, or Null
getProcessedUrlMeta(url) ==
    LET imageMeta == Get(processedImageUrls, url) IN
    IF Falsy(imageMeta) THEN Null
    ELSE LET file == getAbstractFileByPath(Get(imageMeta, "filePath")) IN
         IF file # "file" THEN Null ELSE imageMeta

\* a lookup that deletes the entry it finds stale
GetProcessedUrlMeta_Purging(url) ==
    /\ Loaded
    /\ last' = Op("get", url, getProcessedUrlMeta(url),
                  IF last.op \in {"get", "vault"} /\ last.url = url
                  THEN last.val ELSE Undefined)
    /\ heap' = IF url \in Keys(Registry) /\ getProcessedUrlMeta(url) = Null
               THEN [heap EXCEPT ![processedImageUrls.a] =
                        SelectSeq(@, LAMBDA pr : pr.k # url)]
               ELSE heap
    /\ UNCHANGED <<pluginData, dataJson, vault>>

\* the orchestrator's step 2 for one reference: the artifact is fetched (and
\* then stored and recorded) only when the lookup answers null
NeedsFetch(url) == getProcessedUrlMeta(url) = Null

GetProcessedUrlMeta(url) ==
    /\ Loaded
    /\ last' = Op("get", url, getProcessedUrlMeta(url),
                  IF last.op \in {"get", "vault"} /\ last.url = url
                  THEN last.val ELSE Undefined)
    /\ UNCHANGED <<heap, pluginData, dataJson, vault>>

\* the plugin stops (onunload, or the application exits) and its memory is gone
Stop ==
    /\ Loaded
    /\ pluginData' = Undefined
    /\ heap' = [heap EXCEPT !["settings"] = <<>>, !["processedImageUrls"] = <<>>]
    /\ last' = Op("stop", "", Atom(IF Unsaved THEN "unsaved" ELSE "clean"), Undefined)
    /\ UNCHANGED <<dataJson, vault>>

----------------------------------------------------------------------------
(* The vault changes outside the plugin: the user, a sync, the storage writer *)

VaultSet(path, kind) ==
    /\ vault[path] # kind
    /\ vault' = [vault EXCEPT ![path] = kind]
    /\ last' = IF last.op \in {"get", "vault"}
               THEN Op("vault", last.url, last.val, Undefined)
               ELSE Op("vault", "", Undefined, Undefined)
    /\ UNCHANGED <<heap, pluginData, dataJson>>

DeleteEntry(path) == vault[path] # "none" /\ VaultSet(path, "none")
CreateFile(path) == vault[path] = "none" /\ VaultSet(path, "file")
CreateFolder(path) == vault[path] = "none" /\ VaultSet(path, "folder")

----------------------------------------------------------------------------
(* The specification *)

\* the registry operations never read the settings: the defaults with a nested
\* group are explored by SpecLoad
FlatSettingsShapes == {shape \in DefaultSettingsShapes : "naming" \notin Keys(shape)}

\* no pass has been started
NoPass == [pc |-> "idle", refs |-> <<>>, res |-> <<>>, target |-> <<>>,
           writes |-> 0, reg0 |-> <<>>]

\* the plugin object as constructed: nothing registered, nothing attached
Constructed ==
    /\ phase = "constructed"
    /\ contentProcessor = FALSE
    /\ commandRegistered = FALSE
    /\ ribbonIconEl = 0
    /\ ribbon = {}
    /\ view = "none"
    /\ inFlight = 0
    /\ pass = NoPass
    /\ doc = <<>>

Init ==
    /\ \E shape \in FlatSettingsShapes :
         heap = [a \in Addrs |-> IF a = "D.settings" THEN shape ELSE <<>>]
    /\ pluginData = Undefined
    /\ dataJson = Null
    /\ vault = [p \in Paths |-> "none"]
    /\ last = Op("init", "", Undefined, Undefined)
    /\ Constructed

Next ==
    \/ LoadPluginData /\ UNCHANGED <<uiVars, passVars>>
    \/ SavePluginData /\ UNCHANGED <<uiVars, passVars>>
    \/ \E url \in URLs, imageMeta \in Metas :
         AddProcessedUrl(url, imageMeta) /\ UNCHANGED <<uiVars, passVars>>
    \/ \E url \in URLs : GetProcessedUrlMeta(url) /\ UNCHANGED <<uiVars, passVars>>
    \/ Stop /\ UNCHANGED <<uiVars, passVars>>
    \/ \E path \in Paths : DeleteEntry(path) /\ UNCHANGED <<uiVars, passVars>>
    \/ \E path \in Paths : CreateFile(path) /\ UNCHANGED <<uiVars, passVars>>
    \/ \E path \in Paths : CreateFolder(path) /\ UNCHANGED <<uiVars, passVars>>

Spec == Init /\ [][Next]_vars

----------------------------------------------------------------------------
(* The load alone, over the blobs data.json may hold *)

\* one or none of the pairs key -> value, for value in values
Optional(key, values) == {<<>>} \cup {Pair(key, value) : value \in values}

PersistedNaming ==
    {Obj(a \o b) : a \in Optional("prefix", {Atom("pic")}),
                   b \in Optional("suffix", {Atom("hash")})}

PersistedSettings ==
    {Obj(a \o b \o c) :
        a \in Optional("showRibbonIcon", {Atom("true"), Atom("false")}),
        b \in Optional("naming", PersistedNaming),
        c \in Optional("legacyOption", {Atom("on")})}

PersistedRegistries ==
    {Obj(<<>>),
     Obj(Pair("https://a/x.png", Meta("img/x.png", 1))),
     Obj(Pair("https://a/x.png", Obj(<<>>))),
     Obj(Pair("https://b/y.png", Meta("img/y.png", 1))
         \o Pair("https://a/x.png", Meta("img/x.png", 1)))}

\* no data.json, or an object that may lack settings, processedImageUrls, any
\* key inside them, and may hold keys the defaults do not know
Blobs ==
    {Null} \cup
    {Obj(a \o b \o c) :
        a \in Optional("settings", PersistedSettings),
        b \in Optional("processedImageUrls", PersistedRegistries),
        c \in Optional("schemaVersion", {Atom("1")})}

InitLoad ==
    /\ \E shape \in DefaultSettingsShapes :
         heap = [a \in Addrs |-> IF a = "D.settings" THEN shape ELSE <<>>]
    /\ pluginData = Undefined
    /\ dataJson \in Blobs
    /\ vault = [p \in Paths |-> "none"]
    /\ last = Op("init", "", Undefined, Undefined)
    /\ Constructed

NextLoad == LoadPluginData /\ UNCHANGED <<uiVars, passVars>>

SpecLoad == InitLoad /\ [][NextLoad]_vars

----------------------------------------------------------------------------
(* The plugin's life, its ribbon icon and its triggers *)

\* this.pluginData.settings, the settings object's own properties
settings == Props(Get(pluginData, "settings"))

\* the element addRibbonIcon creates: one that is not attached yet
NewEl(ui) ==
    IF ui = 1..MaxEl THEN MaxEl
    ELSE CHOOSE el \in (1..MaxEl) \ ui : \A other \in (1..MaxEl) \ ui : el <= other

\* removeRibbonIcon(): the handle (el) and the attached elements (ui) it leaves
removeRibbonIcon(el, ui) ==
    IF el # 0 THEN [el |-> 0, ui |-> ui \ {el}] ELSE [el |-> el, ui |-> ui]

\* an update that attaches a new icon without removing the one it has
updateRibbonIcon_NoRemove(setting, el, ui) ==
    IF ~Falsy(PairsGet(setting, "showRibbonIcon"))
    THEN [el |-> NewEl(ui), ui |-> ui \cup {NewEl(ui)}]
    ELSE [el |-> el, ui |-> ui]

\* an update that attaches the icon whatever the setting says
updateRibbonIcon_Always(setting, el, ui) ==
    LET removed == removeRibbonIcon(el, ui) IN
    [el |-> NewEl(removed.ui), ui |-> removed.ui \cup {NewEl(removed.ui)}]

\* updateRibbonIcon() under the given settings
updateRibbonIcon(setting, el, ui) ==
    LET removed == removeRibbonIcon(el, ui) IN
    IF ~Falsy(PairsGet(setting, "showRibbonIcon"))
    THEN [el |-> NewEl(removed.ui), ui |-> removed.ui \cup {NewEl(removed.ui)}]
    ELSE removed

\* the command's editorCallback: what it does for the view it is given
editorCallback(v) == IF v = "file" THEN "pass" ELSE "notice"

\* a ribbon callback that asks for a view only, not for its file
ribbonCallback_ViewOnly(v) == IF v # "none" THEN "pass" ELSE "notice"

\* the ribbon icon's callback: what it does for the active markdown view
ribbonCallback(v) == IF v # "none" /\ v = "file" THEN "pass" ELSE "notice"

\* this.contentProcessor.processActiveLeaf(), not awaited: the pass is started
\* and the callback returns; on an undefined contentProcessor the call throws
processActiveLeaf(n) == IF contentProcessor THEN n + 1 ELSE n

\* one run of a trigger's callback with the outcome its test of the view chose
Trigger(name, outcome) ==
    /\ outcome = "pass" => inFlight < MaxInFlight
    /\ inFlight' = IF outcome = "pass" THEN processActiveLeaf(inFlight) ELSE inFlight
    /\ last' = Op(name, "",
                  Atom(IF outcome = "pass" /\ ~contentProcessor
                       THEN "TypeError" ELSE outcome),
                  Atom(view))
    /\ UNCHANGED <<heap, pluginData, dataJson, vault,
                   phase, contentProcessor, commandRegistered, ribbonIconEl,
                   ribbon, view>>

\* onload() up to its first await: nothing is registered before loadData answers
onloadBegin_RegisterFirst == TRUE

onloadBegin == FALSE

\* onload() until loadPluginData awaits loadData
OnloadBegin ==
    /\ phase = "constructed"
    /\ phase' = "loading"
    /\ commandRegistered' = onloadBegin
    /\ last' = Op("onloadBegin", "", Undefined, Undefined)
    /\ UNCHANGED <<heap, pluginData, dataJson, vault,
                   contentProcessor, ribbonIconEl, ribbon, view, inFlight>>

\* the rest of onload(), which runs to its end without another await: the merge
\* of loadPluginData, the ContentProcessor, the settings tab, the command, the
\* ribbon icon
OnloadResume ==
    /\ phase = "loading"
    /\ LET loaded == loadPluginData(loadData)
           shown == updateRibbonIcon(loaded.settings, ribbonIconEl, ribbon)
       IN  /\ heap' = [heap EXCEPT !["settings"] = loaded.settings,
                                   !["processedImageUrls"] = loaded.processedImageUrls]
           /\ pluginData' = Obj(loaded.top)
           /\ ribbonIconEl' = shown.el
           /\ ribbon' = shown.ui
    /\ contentProcessor' = TRUE
    /\ commandRegistered' = TRUE
    /\ phase' = "loaded"
    /\ last' = Op("onload", "", Undefined, Undefined)
    /\ UNCHANGED <<dataJson, vault, view, inFlight>>

\* onunload(); the host then drops the plugin's command and settings tab
Onunload ==
    /\ phase = "loaded"
    /\ LET removed == removeRibbonIcon(ribbonIconEl, ribbon)
       IN  ribbonIconEl' = removed.el /\ ribbon' = removed.ui
    /\ commandRegistered' = FALSE
    /\ phase' = "unloaded"
    /\ last' = Op("onunload", "", Undefined, Undefined)
    /\ UNCHANGED <<heap, pluginData, dataJson, vault, contentProcessor, view, inFlight>>

\* the settings tab sets settings.showRibbonIcon
SetShowRibbonIcon(b) ==
    /\ phase = "loaded"
    /\ heap' = [heap EXCEPT ![Get(pluginData, "settings").a] =
                              PairsPut(@, "showRibbonIcon", Atom(b))]
    /\ last' = Op("setShowRibbonIcon", "", Atom(b), Undefined)
    /\ UNCHANGED <<pluginData, dataJson, vault, uiVars>>

UpdateRibbonIcon ==
    /\ phase = "loaded"
    /\ Cardinality(ribbon) < MaxEl
    /\ LET shown == updateRibbonIcon(settings, ribbonIconEl, ribbon)
       IN  ribbonIconEl' = shown.el /\ ribbon' = shown.ui
    /\ last' = Op("updateRibbonIcon", "", PairsGet(settings, "showRibbonIcon"),
                  Atom(IF ribbonIconEl = 0 THEN "hidden" ELSE "shown"))
    /\ UNCHANGED <<heap, pluginData, dataJson, vault,
                   phase, contentProcessor, commandRegistered, view, inFlight>>

RemoveRibbonIcon ==
    /\ phase \in {"loaded", "unloaded"}
    /\ LET removed == removeRibbonIcon(ribbonIconEl, ribbon)
       IN  ribbonIconEl' = removed.el /\ ribbon' = removed.ui
    /\ last' = Op("removeRibbonIcon", "", Undefined,
                  Atom(IF ribbonIconEl = 0 THEN "hidden" ELSE "shown"))
    /\ UNCHANGED <<heap, pluginData, dataJson, vault,
                   phase, contentProcessor, commandRegistered, view, inFlight>>

\* the user runs the command; the host offers an editorCallback command only
\* while an editor view is active
Command ==
    /\ commandRegistered
    /\ view # "none"
    /\ Trigger("command", editorCallback(view))

\* the user clicks an icon the plugin has on the ribbon
RibbonClick ==
    /\ ribbon # {}
    /\ Trigger("ribbonClick", ribbonCallback(view))

\* a pass that was started settles
PassSettle ==
    /\ inFlight > 0
    /\ inFlight' = inFlight - 1
    /\ last' = Op("passSettle", "", Undefined, Undefined)
    /\ UNCHANGED <<heap, pluginData, dataJson, vault,
                   phase, contentProcessor, commandRegistered, ribbonIconEl,
                   ribbon, view>>

\* the user opens or closes views
SetView(v) ==
    /\ view # v
    /\ view' = v
    /\ last' = Op("setView", "", Atom(v), Undefined)
    /\ UNCHANGED <<heap, pluginData, dataJson, vault,
                   phase, contentProcessor, commandRegistered, ribbonIconEl,
                   ribbon, inFlight>>

Views == {"none", "nofile", "file"}

\* what data.json may hold of the ribbon setting when the plugin is enabled
PluginBlobs ==
    {Null} \cup {Obj(Pair("settings", Obj(Pair("showRibbonIcon", Atom(b))))) :
                   b \in {"true", "false"}}

InitPlugin ==
    /\ \E shape \in FlatSettingsShapes :
         heap = [a \in Addrs |-> IF a = "D.settings" THEN shape ELSE <<>>]
    /\ pluginData = Undefined
    /\ dataJson \in PluginBlobs
    /\ vault = [p \in Paths |-> "none"]
    /\ last = Op("init", "", Undefined, Undefined)
    /\ Constructed

NextPlugin ==
    \/ OnloadBegin /\ UNCHANGED passVars
    \/ OnloadResume /\ UNCHANGED passVars
    \/ Onunload /\ UNCHANGED passVars
    \/ \E b \in {"true", "false"} : SetShowRibbonIcon(b) /\ UNCHANGED passVars
    \/ UpdateRibbonIcon /\ UNCHANGED passVars
    \/ RemoveRibbonIcon /\ UNCHANGED passVars
    \/ Command /\ UNCHANGED passVars
    \/ RibbonClick /\ UNCHANGED passVars
    \/ PassSettle /\ UNCHANGED passVars
    \/ \E v \in Views : SetView(v) /\ UNCHANGED passVars

SpecPlugin == InitPlugin /\ [][NextPlugin]_vars

----------------------------------------------------------------------------
(* One pass of the content processor over the active document *)

\* what a document's image link can be: a remote url, or a path already local
Links == URLs \cup {"img/old.png"}

Docs == [1..MaxRefs -> Links]

\* a reference's resolution has ended
Settled(r) == r \in {"skip", "local", "resolved", "failed"}

\* it ended with a local file to point the reference at
Resolved(r) == r \in {"local", "resolved"}

AllSettled == \A i \in 1..Len(pass.res) : Settled(pass.res[i])

SomeResolved == \E i \in 1..Len(pass.res) : Resolved(pass.res[i])

\* the Rewriter on the original text: resolved references get their target,
\* everything else is copied
rewrite(text, res, target) ==
    [i \in 1..Len(text) |-> IF Resolved(res[i]) THEN target[i] ELSE text[i]]

\* step 1, on a trigger that starts a pass: the references are extracted
Extract ==
    /\ pass.pc = "idle"
    /\ editorCallback(view) = "pass"
    /\ Command
    /\ pass' = [pc |-> "resolving",
                refs |-> doc,
                res |-> [i \in 1..Len(doc) |->
                           IF doc[i] \in URLs THEN "pending" ELSE "skip"],
                target |-> [i \in 1..Len(doc) |-> ""],
                writes |-> 0,
                reg0 |-> Registry]
    /\ doc' = doc

\* step 2a for reference i: the registry is consulted
Lookup(i) ==
    /\ pass.pc = "resolving"
    /\ pass.res[i] = "pending"
    /\ GetProcessedUrlMeta(pass.refs[i])
    /\ LET meta == getProcessedUrlMeta(pass.refs[i]) IN
         pass' = IF meta = Null
                 THEN [pass EXCEPT !.res[i] = "fetching"]
                 ELSE [pass EXCEPT !.res[i] = "local",
                                   !.target[i] = Get(meta, "filePath").a]
    /\ UNCHANGED <<doc, uiVars>>

\* step 2b: the fetch of reference i answers, with bytes or with a FetchError
Fetch(i, ok) ==
    /\ pass.pc = "resolving"
    /\ pass.res[i] = "fetching"
    /\ pass' = [pass EXCEPT !.res[i] = IF ok THEN "storing" ELSE "failed"]
    /\ last' = Op("fetch", pass.refs[i], Atom(IF ok THEN "ok" ELSE "FetchError"),
                  Undefined)
    /\ UNCHANGED <<heap, pluginData, dataJson, vault, doc, uiVars>>

\* the storage writer puts the artifact at a path nothing occupies
Store(i, path) ==
    /\ pass.pc = "resolving"
    /\ pass.res[i] = "storing"
    /\ CreateFile(path)
    /\ pass' = [pass EXCEPT !.res[i] = "stored", !.target[i] = path]
    /\ UNCHANGED <<doc, uiVars>>

\* the storage writer fails and leaves no file
StoreFails(i) ==
    /\ pass.pc = "resolving"
    /\ pass.res[i] = "storing"
    /\ pass' = [pass EXCEPT !.res[i] = "failed"]
    /\ last' = Op("store", pass.refs[i], Atom("StorageError"), Undefined)
    /\ UNCHANGED <<heap, pluginData, dataJson, vault, doc, uiVars>>

\* the stored artifact is recorded
Record(i, sig) ==
    /\ pass.pc = "resolving"
    /\ pass.res[i] = "stored"
    /\ AddProcessedUrl(pass.refs[i], Meta(pass.target[i], sig))
    /\ pass' = [pass EXCEPT !.res[i] = "resolved"]
    /\ UNCHANGED <<doc, uiVars>>

\* steps 3 and 4: the edits of the resolved references are applied to the
\* original text and the document is written
Commit ==
    /\ pass.pc = "resolving"
    /\ AllSettled
    /\ SomeResolved
    /\ doc' = rewrite(pass.refs, pass.res, pass.target)
    /\ pass' = [pass EXCEPT !.pc = "committed", !.writes = @ + 1]
    /\ last' = Op("commit", "", Undefined, Undefined)
    /\ UNCHANGED <<heap, pluginData, dataJson, vault, uiVars>>

\* step 5: the registry is saved
Persist ==
    /\ pass.pc = "committed"
    /\ SavePluginData
    /\ pass' = [pass EXCEPT !.pc = "persisted"]
    /\ UNCHANGED <<doc, uiVars>>

\* step 6: the pass ends, after the save or with nothing resolved
Report ==
    /\ \/ pass.pc = "persisted"
       \/ pass.pc = "resolving" /\ AllSettled /\ ~SomeResolved
    /\ PassSettle
    /\ pass' = [pass EXCEPT !.pc = "done"]
    /\ doc' = doc

\* the registries a pass may start from: empty, or one url recorded
StartRegistries == {<<>>, Pair("https://a/x.png", Meta("img/x.png", 1))}

\* the plugin after onload, a document open, the recorded file present or gone
InitPass ==
    /\ \E shape \in FlatSettingsShapes, registry \in StartRegistries :
         /\ heap = [a \in Addrs |->
                      CASE a \in {"D.settings", "settings"} -> shape
                        [] a = "processedImageUrls" -> registry
                        [] OTHER -> <<>>]
         /\ LET shown == updateRibbonIcon(shape, 0, {})
            IN  ribbonIconEl = shown.el /\ ribbon = shown.ui
    /\ pluginData = Obj(Pair("settings", Ref("settings"))
                        \o Pair("processedImageUrls", Ref("processedImageUrls")))
    /\ dataJson = Serialize(pluginData)
    /\ vault \in [Paths -> {"none", "file"}]
    /\ last = Op("onload", "", Undefined, Undefined)
    /\ phase = "loaded"
    /\ contentProcessor = TRUE
    /\ commandRegistered = TRUE
    /\ view = "file"
    /\ inFlight = 0
    /\ pass = NoPass
    /\ doc \in Docs

NextPass ==
    \/ Extract
    \/ \E i \in 1..Len(pass.res) : Lookup(i)
    \/ \E i \in 1..Len(pass.res), ok \in BOOLEAN : Fetch(i, ok)
    \/ \E i \in 1..Len(pass.res), path \in Paths : Store(i, path)
    \/ \E i \in 1..Len(pass.res) : StoreFails(i)
    \/ \E i \in 1..Len(pass.res), sig \in Sigs : Record(i, sig)
    \/ Commit
    \/ Persist
    \/ Report

SpecPass == InitPass /\ [][NextPass]_vars

----------------------------------------------------------------------------
(* Vocabulary of the properties *)

\* the registry's entry for url (Undefined when there is none)
Entry(url) == PairsGet(Registry, url)

\* a file (not a folder, not nothing) is in the vault at meta.filePath
BackingFileExists(meta) ==
    /\ meta.t = "obj"
    /\ LET path == PairsGet(meta.o, "filePath") IN
         path.t = "atom" /\ path.a \in Paths /\ vault[path.a] = "file"

\* the same, of a given registry and vault (for the state after a step)
RegistryOf(pd, h) ==
    IF pd = Undefined THEN <<>> ELSE h[PairsGet(pd.o, "processedImageUrls").a]

FileExistsIn(v, meta) ==
    /\ meta.t = "obj"
    /\ LET path == PairsGet(meta.o, "filePath") IN
         path.t = "atom" /\ path.a \in Paths /\ v[path.a] = "file"

\* what a lookup must answer from the registry and the vault as they are now
Validated(url) ==
    IF url \in Keys(Registry) /\ BackingFileExists(Entry(url)) THEN Entry(url) ELSE Null

----------------------------------------------------------------------------
(* C1: a lookup answers a meta only when the registry holds an entry for the
   url and a file (not a folder, not nothing) exists at that entry's filePath,
   and the meta it answers is that entry; a url with no entry yields null. *)
C1_LookupOnlyValidated ==
    Loaded =>
      /\ \A url \in URLs :
           LET r == getProcessedUrlMeta(url) IN
             /\ r # Null => /\ url \in Keys(Registry)
                            /\ BackingFileExists(Entry(url))
                            /\ r = Entry(url)
             /\ url \notin Keys(Registry) => r = Null
      /\ last.op = "get" =>
           /\ last.val # Null => /\ last.url \in Keys(Registry)
                                 /\ BackingFileExists(Entry(last.url))
                                 /\ last.val = Entry(last.url)
           /\ last.url \notin Keys(Registry) => last.val = Null

\* a lookup has answered a meta
C1_Witness == last.op = "get" /\ last.val # Null

(* C2: validation is redone on every lookup: the answer is the one the current
   registry entry and the current vault give, whatever the previous lookup of
   the url answered; after the backing file has gone, the lookup that answered
   a meta before answers null. *)
C2_NeverCached ==
    last.op = "get" =>
      /\ last.val = Validated(last.url)
      /\ (last.before \notin {Undefined, Null} /\ ~BackingFileExists(last.before))
            => last.val = Null

\* a lookup answered a meta, only the vault changed, the next lookup answered null
C2_Witness ==
    last.op = "get" /\ last.before \notin {Undefined, Null} /\ last.val = Null

(* C3: a stale entry (its file gone) makes the lookup answer null, and the
   record that follows overwrites it: the entry is the fresh meta, which a
   lookup answers while the fresh file exists. *)
C3_StaleEntryOverwritten ==
    /\ (last.op = "get" /\ last.url \in Keys(Registry)
          /\ ~BackingFileExists(Entry(last.url))) => last.val = Null
    /\ last.op = "add" =>
         /\ Entry(last.url) = last.val
         /\ BackingFileExists(last.val) => getProcessedUrlMeta(last.url) = last.val
    /\ (last.op = "get" /\ last.url \in Keys(Registry)
          /\ BackingFileExists(Entry(last.url))) => last.val = Entry(last.url)

\* a record has replaced a stale entry by a different meta whose file exists
C3_Witness ==
    /\ last.op = "add"
    /\ last.before # Undefined /\ last.before # last.val
    /\ ~BackingFileExists(last.before)
    /\ BackingFileExists(last.val)

(* C4: once url -> meta is recorded and its file is present, the lookup of
   url answers meta and changes nothing, and the entry stays as it is over
   every step that neither removes the file, nor records the url again, nor
   reloads: a second run resolves from the registry and has nothing to fetch
   or record. *)
C4_ResolvedFromRegistry ==
    [][\A url \in URLs :
         LET meta == Entry(url) IN
         (Loaded /\ url \in Keys(Registry) /\ BackingFileExists(meta)) =>
           /\ getProcessedUrlMeta(url) = meta
           /\ ~NeedsFetch(url)
           /\ (last'.op = "get" /\ last'.url = url) =>
                /\ last'.val = meta
                /\ UNCHANGED <<heap, pluginData, dataJson, vault>>
           /\ (/\ last'.op \in {"get", "save", "vault", "add"}
               /\ ~(last'.op = "add" /\ last'.url = url)
               /\ FileExistsIn(vault', meta)) =>
                /\ PairsGet(RegistryOf(pluginData', heap'), url) = meta
      ]_vars

\* two lookups of the same url in a row have answered the same meta
C4_Witness == last.op = "get" /\ last.val # Null /\ last.before = last.val

(* C5: after the load, no record, lookup, save or vault change removes a url
   from the registry: a lookup leaves the registry as it is, and an entry
   changes only by a record for its own url. *)
C5_RegistryNeverShrinks ==
    [][LET registry2 == RegistryOf(pluginData', heap') IN
       (Loaded /\ last'.op \in {"add", "get", "save", "vault"}) =>
         /\ last'.op # "add" => registry2 = Registry
         /\ last'.op = "add" =>
              /\ Keys(Registry) \subseteq Keys(registry2)
              /\ \A url \in Keys(Registry) \ {last'.url} :
                   PairsGet(registry2, url) = Entry(url)
      ]_vars

\* a lookup has failed validation and the stale entry is still in the registry
C5_Witness ==
    last.op = "get" /\ last.val = Null /\ last.url \in Keys(Registry)

(* C6: recording a (url, meta) the registry already holds changes nothing:
   neither the registry (its keys, values and order) nor the persisted blob. *)
C6_RecordIdempotent ==
    [][(Loaded /\ last'.op = "add" /\ Entry(last'.url) = last'.val) =>
         UNCHANGED <<heap, pluginData, dataJson>>
      ]_vars

\* the same (url, meta) has been recorded over itself
C6_Witness == last.op = "add" /\ last.before = last.val

(* C7: no two distinct urls of the registry have the same filePath. *)
C7_FilePathUnique ==
    Loaded =>
      \A u1 \in Keys(Registry), u2 \in Keys(Registry) :
         u1 # u2 => Get(Entry(u1), "filePath") # Get(Entry(u2), "filePath")

(* C8: only savePluginData changes the persisted blob, and it overwrites it
   with the whole current data; a record or a lookup never touches it; a load
   gives exactly the registry of the last saved blob (the default, empty one
   when none was saved), so that what was recorded after the last save is
   lost and nothing else. *)
PersistedRegistry == Props(OptGet(dataJson, "processedImageUrls"))

C8_PersistedPerBatch ==
    [][/\ dataJson' # dataJson => last'.op = "save"
       /\ last'.op = "save" =>
            /\ Keys(Props(dataJson')) = Keys(Props(pluginData))
            /\ PairsGet(dataJson'.o, "processedImageUrls") = Obj(Registry)
            /\ PairsGet(dataJson'.o, "settings") = Obj(Props(Get(pluginData, "settings")))
       /\ last'.op \in {"add", "get"} => dataJson' = dataJson
       /\ last'.op = "load" => RegistryOf(pluginData', heap') = PersistedRegistry
      ]_vars

\* the plugin stopped with unsaved records and the load brought back the
\* entries of the last save
C8_Witness ==
    last.op = "load" /\ last.before = Atom("unsaved") /\ Registry # <<>>

(* C9: a save followed by a load gives a registry with the same urls and the
   same filePath (indeed the same meta) for each, in whatever order the urls
   were recorded. *)
C9_SaveLoadRoundTrip ==
    [][LET registry2 == RegistryOf(pluginData', heap') IN
       (Loaded /\ last.op = "save" /\ last'.op = "load") =>
         /\ Keys(registry2) = Keys(Registry)
         /\ \A url \in Keys(Registry) :
              Get(PairsGet(registry2, url), "filePath") = Get(Entry(url), "filePath")
         /\ Mapping(registry2) = Mapping(Registry)
      ]_vars

\* a registry of two urls, the second url of the model recorded first, has been
\* saved and loaded again
C9_Witness ==
    /\ last.op = "load" /\ last.before = Atom("saved")
    /\ Len(Registry) = 2
    /\ Registry[1].k = "https://b/y.png"

(* C10 *)
\* result holds the keys of default and of persisted and no other, each with
\* the persisted value where persisted has the key and the default otherwise
KeyFilled(default, persisted, result) ==
    /\ Keys(result) = Keys(default) \cup Keys(Props(persisted))
    /\ \A key \in Keys(result) :
         PairsGet(result, key) =
            IF key \in Keys(Props(persisted)) THEN Get(persisted, key)
            ELSE PairsGet(default, key)

\* the same, filled one level further down: where default and persisted both
\* hold an object under a key, the result's object is filled key by key
DeepFilled(default, persisted, result) ==
    /\ Keys(result) = Keys(default) \cup Keys(Props(persisted))
    /\ \A key \in Keys(result) :
         LET d == PairsGet(default, key)
             p == Get(persisted, key)
             r == PairsGet(result, key)
         IN  IF d.t = "obj" /\ p.t = "obj"
             THEN r.t = "obj" /\ KeyFilled(d.o, p, r.o)
             ELSE r = IF key \in Keys(Props(persisted)) THEN p ELSE d

\* the top level after a load: the two keys of the defaults and every key of
\* the blob, the blob's value kept for the keys the defaults do not know
TopLevelFilled ==
    /\ Loaded
    /\ Keys(pluginData.o) = {"settings", "processedImageUrls"} \cup Keys(Props(dataJson))
    /\ \A key \in Keys(pluginData.o) \ {"settings", "processedImageUrls"} :
         PairsGet(pluginData.o, key) = Get(dataJson, key)

(* C10 as claimed: after a load of any blob every key of the defaults is
   present at every nesting level, with the persisted value where one exists
   and the default otherwise, and the blob's unknown keys are kept. *)
C10_FilledAtEveryLevel ==
    last.op = "load" =>
      /\ TopLevelFilled
      /\ DeepFilled(heap["D.settings"], OptGet(dataJson, "settings"),
                    Props(Get(pluginData, "settings")))
      /\ DeepFilled(heap["D.processedImageUrls"], OptGet(dataJson, "processedImageUrls"),
                    Registry)

(* C10 as amended: the load fills the top level and the keys directly inside
   settings and processedImageUrls; a value under such a key is the blob's
   whole value when the blob has the key (nothing inside it is filled), the
   default's otherwise; the blob's unknown keys are kept. *)
C10_FilledTwoLevels ==
    last.op = "load" =>
      /\ TopLevelFilled
      /\ KeyFilled(heap["D.settings"], OptGet(dataJson, "settings"),
                   Props(Get(pluginData, "settings")))
      /\ KeyFilled(heap["D.processedImageUrls"], OptGet(dataJson, "processedImageUrls"),
                   Registry)

\* a blob whose settings lack showRibbonIcon, hold an unknown key and hold a
\* naming group without its suffix has been loaded over defaults that have
\* the group: showRibbonIcon is filled, the unknown key kept, the suffix missing
C10_Witness ==
    /\ last.op = "load"
    /\ "naming" \in Keys(heap["D.settings"])
    /\ Keys(Props(OptGet(dataJson, "settings"))) = {"naming", "legacyOption"}
    /\ Keys(Props(Get(pluginData, "settings"))) = {"showRibbonIcon", "naming", "legacyOption"}
    /\ Keys(Props(Get(Get(pluginData, "settings"), "naming"))) = {"prefix"}

----------------------------------------------------------------------------
(* C11: whatever the sequence of setting toggles, updateRibbonIcon,
   removeRibbonIcon and onunload, the ribbon holds at most one of the plugin's
   icons, the one ribbonIconEl refers to; and a removeRibbonIcon that finds no
   icon shown changes nothing. *)
C11_AtMostOneIcon ==
    /\ [](/\ Cardinality(ribbon) <= 1
          /\ ribbon = IF ribbonIconEl = 0 THEN {} ELSE {ribbonIconEl})
    /\ [][last'.op = "removeRibbonIcon" /\ ribbonIconEl = 0
            => UNCHANGED <<heap, pluginData, dataJson, vault, uiVars, passVars>>]_vars

\* an update ran while the icon was shown and the setting was on
C11_Witness ==
    /\ last.op = "updateRibbonIcon"
    /\ last.before = Atom("shown")
    /\ last.val = Atom("true")
    /\ Cardinality(ribbon) = 1

----------------------------------------------------------------------------
(* C12: at most one processActiveLeaf pass is in flight at any time: no pass
   is started while an earlier one has not settled. *)
C12_AtMostOnePass == inFlight <= 1

----------------------------------------------------------------------------
(* C13: a trigger, the command or a click on the ribbon icon, starts exactly
   one pass when the active view has a file; otherwise it starts none and only
   shows a notice, leaving the registry, the persisted data and the vault as
   they were. The two callbacks decide alike for every view an editor command
   can be given. *)
C13_OnePassPerTrigger ==
    /\ [](\A v \in Views \ {"none"} : editorCallback(v) = ribbonCallback(v))
    /\ [][last'.op \in {"command", "ribbonClick"} =>
            /\ view = "file" =>
                  last'.val = Atom("pass") /\ inFlight' = inFlight + 1
            /\ view # "file" =>
                  /\ last'.val = Atom("notice")
                  /\ UNCHANGED <<heap, pluginData, dataJson, vault, inFlight>>]_vars

\* the ribbon icon was clicked while the active view had no file
C13_Witness ==
    /\ last.op = "ribbonClick"
    /\ last.before = Atom("nofile")
    /\ last.val = Atom("notice")

----------------------------------------------------------------------------
(* C14: while the resolutions of a pass interleave, every registry entry is
   one whole meta: the one the pass found loaded, or one a resolution of that
   url passed to addProcessedUrl; and a record for one url sets that url's
   entry to the meta passed and leaves every other url's entry as it was. *)
C14_AtomicPerKey ==
    /\ [](\A url \in URLs :
            \/ Entry(url) = PairsGet(IF pass.pc = "idle" THEN Registry ELSE pass.reg0,
                                     url)
            \/ \E i \in 1..Len(pass.res), sig \in Sigs :
                  /\ pass.refs[i] = url
                  /\ pass.res[i] = "resolved"
                  /\ Entry(url) = Meta(pass.target[i], sig))
    /\ [][last'.op = "add" =>
            \A url \in URLs :
               PairsGet(RegistryOf(pluginData', heap'), url) =
                  IF url = last'.url THEN last'.val ELSE Entry(url)]_vars

\* a record was made beside another url's entry while a resolution of the
\* same pass was still in flight
C14_Witness ==
    /\ last.op = "add"
    /\ \E url \in URLs \ {last.url} : Entry(url) # Undefined
    /\ \E i \in 1..Len(pass.res) : pass.res[i] \in {"fetching", "storing", "stored"}

----------------------------------------------------------------------------
(* C15: failures are isolated within a pass. A resolved reference keeps its
   stored file and its registry entry whatever happens to the others; once the
   pass has committed or ended, every failed reference still reads its remote
   url and every resolved one reads its local target; the registry is the one
   the pass started from plus exactly one entry per url it downloaded, a url
   whose resolutions all failed having gained or changed none; and a pass that
   resolved anything has written the document, whatever else failed. *)
C15_FailureIsolated ==
    LET refsOf == 1..Len(pass.res)
        downloaded == {pass.refs[i] : i \in {j \in refsOf : pass.res[j] = "resolved"}}
        ended == pass.pc \in {"committed", "persisted", "done"}
    IN  /\ \A i \in refsOf :
              pass.res[i] = "resolved" =>
                 /\ vault[pass.target[i]] = "file"
                 /\ \E j \in refsOf, sig \in Sigs :
                       /\ pass.refs[j] = pass.refs[i]
                       /\ pass.res[j] = "resolved"
                       /\ Entry(pass.refs[i]) = Meta(pass.target[j], sig)
        /\ pass.pc # "idle" =>
              /\ \A url \in URLs \ downloaded : Entry(url) = PairsGet(pass.reg0, url)
              /\ Keys(Registry) = Keys(pass.reg0) \cup downloaded
              /\ Len(Registry) = Cardinality(Keys(pass.reg0) \cup downloaded)
        /\ ended =>
              /\ \A i \in refsOf :
                    doc[i] = IF Resolved(pass.res[i]) THEN pass.target[i]
                             ELSE pass.refs[i]
              /\ SomeResolved => pass.writes = 1

\* a pass ended with one reference failed and another downloaded
C15_Witness ==
    /\ pass.pc = "done"
    /\ \E i, j \in 1..Len(pass.res) :
          pass.res[i] = "failed" /\ pass.res[j] = "resolved"

----------------------------------------------------------------------------
(* C16: a pass writes the document at most once; the write happens only when
   every resolution has settled, so with no fetch or store of the pass in
   flight, and only when at least one reference was resolved; and data.json is
   written only after that write, never while the pass is still resolving. *)
C16_CommitThenPersist ==
    /\ [](pass.writes <= 1)
    /\ [][(doc' # doc \/ pass'.writes # pass.writes) =>
             (pass.pc = "resolving" /\ pass.writes = 0 /\ AllSettled /\ SomeResolved)]_vars
    /\ [][(dataJson' # dataJson \/ last'.op = "save") =>
             (pass.pc = "committed" /\ pass.writes = 1)]_vars

\* a pass that downloaded something has written the document and then saved
C16_Witness ==
    /\ last.op = "save"
    /\ pass.pc = "persisted"
    /\ pass.writes = 1
    /\ doc # pass.refs
    /\ \E i \in 1..Len(pass.res) : pass.res[i] = "resolved"

----------------------------------------------------------------------------
(* C17: right after every updateRibbonIcon, the one onload makes included, the
   ribbon holds the plugin's icon exactly when settings.showRibbonIcon was
   true at the call; and once onunload has run no icon of the plugin is on the
   ribbon. *)
C17_IconFollowsSetting ==
    /\ last.op = "updateRibbonIcon" =>
          /\ ribbon # {} <=> ~Falsy(last.val)
          /\ ribbonIconEl # 0 <=> ~Falsy(last.val)
    /\ last.op = "onload" =>
          (ribbon # {} <=> ~Falsy(PairsGet(settings, "showRibbonIcon")))
    /\ phase = "unloaded" => ribbon = {} /\ ribbonIconEl = 0

\* the setting was turned off and the update took the shown icon away
C17_Witness ==
    /\ last.op = "updateRibbonIcon"
    /\ last.val = Atom("false")
    /\ last.before = Atom("shown")
    /\ ribbon = {}

----------------------------------------------------------------------------
(* C18: the load comes before any trigger. While onload has not finished,
   neither the command nor a ribbon icon exists and no pass runs; whenever a
   trigger exists or has fired, or a pass is in flight, pluginData has been
   loaded and the ContentProcessor constructed, so no callback meets an
   undefined one; and the steps of onload start no pass themselves. *)
C18_LoadBeforeTriggers ==
    /\ [](/\ phase \in {"constructed", "loading"} =>
               ~commandRegistered /\ ribbon = {} /\ inFlight = 0
          /\ (commandRegistered \/ ribbon # {} \/ inFlight > 0) =>
               Loaded /\ contentProcessor
          /\ last.op \in {"command", "ribbonClick"} =>
               Loaded /\ contentProcessor /\ last.val # Atom("TypeError"))
    /\ [][last'.op \in {"onloadBegin", "onload"} => inFlight' = inFlight]_vars

\* the command started a pass on the loaded plugin
C18_Witness ==
    /\ last.op = "command"
    /\ last.val = Atom("pass")
    /\ phase = "loaded"
    /\ Loaded
    /\ inFlight = 1

----------------------------------------------------------------------------
(* C19: the settings and the registry of the loaded pluginData are objects of
   their own, never the objects of DEFAULT_PLUGIN_DATA; no step, a record
   least of all, changes the defaults; so a load that finds nothing persisted
   gives an empty registry and the default settings, whatever was recorded
   before. *)
C19_DefaultsUntouched ==
    /\ [](Loaded =>
            /\ Get(pluginData, "settings") = Ref("settings")
            /\ processedImageUrls = Ref("processedImageUrls"))
    /\ [][/\ heap'["D.settings"] = heap["D.settings"]
          /\ heap'["D.processedImageUrls"] = heap["D.processedImageUrls"]]_vars
    /\ [](last.op = "load" /\ dataJson = Null =>
            /\ Registry = <<>>
            /\ settings = heap["D.settings"])

\* urls were recorded and lost unsaved; the next load found nothing persisted
C19_Witness ==
    /\ last.op = "load"
    /\ last.before = Atom("unsaved")
    /\ dataJson = Null
    /\ Registry = <<>>

====
